---- MODULE Spec2Model ----
(***************************************************************************)
(* Credential rotation of prisma-calls: keys/rotate2.py (lambda_handler,   *)
(* process_rotation) and keys/rotation.py (main), run against one service  *)
(* account of the identity service and one secret-store path.              *)
(* Every network call is one step; its outcome is chosen by the            *)
(* environment: "ok", "http_error" (a response raise_for_status rejects)   *)
(* or "exception" (requests raises: connection error, timeout).  A failed  *)
(* call has no effect on the remote side.                                  *)
(***************************************************************************)
EXTENDS Integers, Sequences, FiniteSets, TLC

\* ---------------------------------------------------------------- bounds
InitKeys == 2
MaxTasks == 2
MaxRuns == 2

KeyIds == 1..(InitKeys + MaxTasks + MaxRuns)

\* ------------------------------------------------------------- constants
NoKey == 0
Statuses == {"NONE", "ACTIVE", "INACTIVE"}
Outcomes == {"ok", "http_error", "exception"}
VaultPath == "p1"
ApiUrl == "u1"
None == "None"

RolledBackMsg == "New key generation failed validation. Rolled back."
MissingSecretMsg == "Vault secret missing 'access_key_id' or 'secret_key'"
\* str(e) of a requests exception, reduced to the class of the exception
HTTPErrorMsg == "HTTPError"
ConnectionErrorMsg == "ConnectionError"
KeyErrorPathMsg == "'vault_secret_path'"
KeyErrorUrlMsg == "'prisma_api_url'"
\* str(e) of the TypeError config_item['vault_secret_path'] raises for a string
TypeErrorMsg == "string indices must be integers, not 'str'"

VARIABLES
    prog,               \* which script runs: "rotate2" or "rotation"
    keys,               \* identity service: key id -> status ("NONE" = no such key)
    nextId,             \* identity service: id the next created key gets
    store,              \* secret store content at the path
    config,             \* rotate2: the task list of secrets_config.json
    idx,                \* rotate2: position of lambda_handler's loop in config
    results,            \* rotate2: lambda_handler's results list
    response,           \* rotate2: lambda_handler's return value
    exit_code,          \* rotation: exit status of the last finished run (-1: none)
    emitted,            \* rotation: key id of the JSON last printed for Vault
    runs,               \* number of rotation runs started
    pc,                 \* position of the running script ("raised": lambda_handler
                        \* was left by an exception nothing caught)
    current_secrets,    \* process_rotation local (rotation: the environment credentials)
    old_access_key,     \* process_rotation local (rotation: ACCESS_KEY_ID)
    token_a,            \* session A: key id it was obtained with (NoKey: none)
    all_keys,           \* the key listing, a sequence of [id, status]
    listed,             \* history: the keys of the listing this run obtained
    previous_active_key,\* rotation: main's local
    new_access_id,      \* id of the key this run created (NoKey: none)
    token_b,            \* session B: key id it was obtained with (NoKey: none)
    calls,              \* history: the network calls of the current run, in order
    pre,                \* history: keys and store when the current run started
    origin              \* history: keys and store before any run

vars == <<prog, keys, nextId, store, config, idx, results, response, exit_code,
          emitted, runs, pc, current_secrets, old_access_key, token_a, all_keys,
          previous_active_key, new_access_id, token_b, calls, pre, origin, listed>>

\* ------------------------------------------------------------ the remote side
\* The secret a key id was issued with.
SecretOf(id) == id

NoSecrets == [access_key_id |-> NoKey, secret_key |-> NoKey, other |-> ""]

\* POST /login answers 200 only for an existing ACTIVE key and its own secret.
LoginAccepts(id, secret) ==
    /\ id \in KeyIds
    /\ keys[id] = "ACTIVE"
    /\ secret = SecretOf(id)

ExistingKeys == {k \in KeyIds : keys[k] # "NONE"}

\* GET /access_keys: the existing keys with their status, in an order the
\* service chooses.
Listings ==
    LET S == ExistingKeys
        n == Cardinality(S)
    IN  {[i \in 1..n |-> [id |-> f[i], status |-> keys[f[i]]]] :
            f \in {g \in [1..n -> S] : \A i, j \in 1..n : i # j => g[i] # g[j]}}

ActiveKeys(ks) == {k \in KeyIds : ks[k] = "ACTIVE"}
ActiveCount(ks) == Cardinality(ActiveKeys(ks))

Call(op, key, res) == [op |-> op, key |-> key, res |-> res]

\* the elements of a sequence
Range(q) == {q[i] : i \in 1..Len(q)}

\* ------------------------------------------------------------ configuration
\* An element of the list json.load returns: a mapping (type "dict") in
\* which each of the two keys is present or missing (None), or a JSON value
\* that is no mapping, here a string (type "str"), which has no keys.
Tasks ==
    [type : {"dict"}, vault_secret_path : {VaultPath, None}, prisma_api_url : {ApiUrl, None}]
        \cup {[type |-> "str", vault_secret_path |-> None, prisma_api_url |-> None]}

Configs == UNION {[1..n -> Tasks] : n \in 0..MaxTasks}

Stores ==
    {[access_key_id |-> a, secret_key |-> s, other |-> "team=sec"] :
        a \in 0..InitKeys, s \in 0..InitKeys}

InitStores == {s \in Stores : s.secret_key \in {NoKey, SecretOf(s.access_key_id)}}

Init ==
    /\ prog \in {"rotate2", "rotation"}
    /\ keys \in {k \in [KeyIds -> Statuses] : \A i \in KeyIds : i > InitKeys => k[i] = "NONE"}
    /\ nextId = InitKeys + 1
    /\ store \in InitStores
    /\ config \in IF prog = "rotate2" THEN Configs ELSE {<<>>}
    /\ idx = 1
    /\ results = <<>>
    /\ response = [statusCode |-> 0, body |-> None]
    /\ exit_code = -1
    /\ emitted = NoKey
    /\ runs = 0
    /\ pc = "idle"
    /\ current_secrets = NoSecrets
    /\ old_access_key = NoKey
    /\ token_a = NoKey
    /\ all_keys = <<>>
    /\ listed = {}
    /\ previous_active_key = NoKey
    /\ new_access_id = NoKey
    /\ token_b = NoKey
    /\ calls = <<>>
    /\ pre = [keys |-> keys, store |-> store]
    /\ origin = [keys |-> keys, store |-> store]


\* =========================================================== keys/rotate2.py
Item == config[idx]

\* the item is a dict: it can be subscripted with a key and has .get
IsMapping(item) == item.type = "dict"

\* item.get('vault_secret_path') of a dict
ItemPath(item) == item.vault_secret_path

SuccessResult(item) == [path |-> item.vault_secret_path, status |-> "Success", error |-> None]

FailedResult(item, err) == [path |-> ItemPath(item), status |-> "Failed", error |-> err]

ResultsAppend(rs, r) == Append(rs, r)

\* str(e) of the exception a failed requests call raises
RequestErrorMsg(res) == IF res = "http_error" THEN HTTPErrorMsg ELSE ConnectionErrorMsg

\* lambda_handler's except branch: record the failure, go on with the next
\* item.  The branch calls item.get (lines 163, 164): for an item that is no
\* dict that raises AttributeError inside the handler, which nothing catches,
\* so lambda_handler is left with nothing appended and nothing returned.
Fail(err) ==
    IF IsMapping(Item)
    THEN /\ results' = ResultsAppend(results, FailedResult(Item, err))
         /\ idx' = idx + 1
         /\ pc' = "loop"
    ELSE /\ pc' = "raised"
         /\ UNCHANGED <<results, idx>>

\* lambda_handler's success branch
Succeed ==
    /\ results' = ResultsAppend(results, SuccessResult(Item))
    /\ idx' = idx + 1
    /\ pc' = "loop"

\* open(CONFIG_FILE) and json.load
LoadConfig ==
    /\ prog = "rotate2"
    /\ pc = "idle"
    /\ \E ok \in BOOLEAN :
        IF ok
        THEN /\ pc' = "loop"
             /\ response' = response
        ELSE /\ pc' = "returned"
             /\ response' = [statusCode |-> 500, body |-> "Config Error"]
    /\ UNCHANGED <<listed, origin, prog, keys, nextId, store, config, idx, results, exit_code, emitted,
                   runs, current_secrets, old_access_key, token_a, all_keys,
                   previous_active_key, new_access_id, token_b, calls, pre>>

\* for item in config: process_rotation(item) up to the read of the two task fields
ProcessStart ==
    /\ prog = "rotate2"
    /\ pc = "loop"
    /\ idx <= Len(config)
    /\ runs' = runs + 1
    /\ pre' = [keys |-> keys, store |-> store]
    /\ calls' = <<>>
    /\ current_secrets' = NoSecrets
    /\ old_access_key' = NoKey
    /\ token_a' = NoKey
    /\ all_keys' = <<>>
    /\ listed' = {}
    /\ new_access_id' = NoKey
    /\ token_b' = NoKey
    /\ IF ~IsMapping(Item)
       THEN Fail(TypeErrorMsg)
       ELSE IF Item.vault_secret_path = None
       THEN Fail(KeyErrorPathMsg)
       ELSE IF Item.prisma_api_url = None
       THEN Fail(KeyErrorUrlMsg)
       ELSE /\ pc' = "fetch"
            /\ UNCHANGED <<results, idx>>
    /\ UNCHANGED <<origin, prog, keys, nextId, store, config, response, exit_code, emitted,
                   previous_active_key>>

\* the status code of lambda_handler's return after the loop
ReturnStatus(rs) == 200

\* return {"statusCode": ..., "body": json.dumps(results)}
Return ==
    /\ prog = "rotate2"
    /\ pc = "loop"
    /\ idx > Len(config)
    /\ response' = [statusCode |-> ReturnStatus(results), body |-> results]
    /\ pc' = "returned"
    /\ UNCHANGED <<listed, origin, prog, keys, nextId, store, config, idx, results, exit_code, emitted,
                   runs, current_secrets, old_access_key, token_a, all_keys,
                   previous_active_key, new_access_id, token_b, calls, pre>>

\* 1. get_vault_secret and the check of the two fields
Fetch ==
    /\ prog = "rotate2"
    /\ pc = "fetch"
    /\ \E res \in Outcomes :
        /\ calls' = Append(calls, Call("store_read", NoKey, res))
        /\ IF res = "ok"
           THEN /\ current_secrets' = store
                /\ old_access_key' = store.access_key_id
                /\ IF store.access_key_id = NoKey \/ store.secret_key = NoKey
                   THEN Fail(MissingSecretMsg)
                   ELSE /\ pc' = "auth_old"
                        /\ UNCHANGED <<results, idx>>
           ELSE /\ Fail(RequestErrorMsg(res))
                /\ UNCHANGED <<current_secrets, old_access_key>>
    /\ UNCHANGED <<listed, origin, prog, keys, nextId, store, config, response, exit_code, emitted, runs,
                   token_a, all_keys, previous_active_key, new_access_id, token_b, pre>>

\* 2. prisma_login with the stored credential (session A)
AuthOld ==
    /\ prog = "rotate2"
    /\ pc = "auth_old"
    /\ \E res \in Outcomes :
        /\ res = "ok" => LoginAccepts(old_access_key, current_secrets.secret_key)
        /\ calls' = Append(calls, Call("login", old_access_key, res))
        /\ IF res = "ok"
           THEN /\ token_a' = old_access_key
                /\ pc' = "list"
                /\ UNCHANGED <<results, idx>>
           ELSE /\ Fail(RequestErrorMsg(res))
                /\ UNCHANGED token_a
    /\ UNCHANGED <<listed, origin, prog, keys, nextId, store, config, response, exit_code, emitted, runs,
                   current_secrets, old_access_key, all_keys, previous_active_key,
                   new_access_id, token_b, pre>>

\* a slip that inverts the test: if key['status']
IsInactiveInverted(key) == key.status = "ACTIVE"

\* if not key['status']
IsInactive(key) == key.status = "INACTIVE"

\* the index of the first listed key from position `from` on that the loop
\* deletes, 0 when there is none
NextInactive(ks, from) ==
    IF \E i \in from..Len(ks) : IsInactive(ks[i])
    THEN CHOOSE i \in from..Len(ks) :
            /\ IsInactive(ks[i])
            /\ \A j \in from..(i - 1) : ~IsInactive(ks[j])
    ELSE 0

\* the listing from position `from` on
Rest(ks, from) == SubSeq(ks, from, Len(ks))

\* 3. GET /access_keys
ListKeys ==
    /\ prog = "rotate2"
    /\ pc = "list"
    /\ \E res \in Outcomes :
        /\ calls' = Append(calls, Call("list", NoKey, res))
        /\ IF res = "ok"
           THEN \E l \in Listings :
                    LET n == NextInactive(l, 1)
                    IN  /\ all_keys' = IF n = 0 THEN <<>> ELSE Rest(l, n)
                        /\ listed' = Range(l)
                        /\ pc' = IF n = 0 THEN "create" ELSE "cleanup"
                        /\ UNCHANGED <<results, idx>>
           ELSE /\ Fail(RequestErrorMsg(res))
                /\ UNCHANGED <<all_keys, listed>>
    /\ UNCHANGED <<origin, prog, keys, nextId, store, config, response, exit_code, emitted, runs,
                   current_secrets, old_access_key, token_a, previous_active_key,
                   new_access_id, token_b, pre>>

\* 3. one DELETE /access_keys/{id} of the loop over the listed keys
Cleanup ==
    /\ prog = "rotate2"
    /\ pc = "cleanup"
    /\ \E res \in Outcomes :
        LET key == all_keys[1]
            n == NextInactive(all_keys, 2)
        IN  /\ calls' = Append(calls, Call("delete", key.id, res))
            /\ IF res = "ok"
               THEN /\ keys' = [keys EXCEPT ![key.id] = "NONE"]
                    /\ all_keys' = IF n = 0 THEN <<>> ELSE Rest(all_keys, n)
                    /\ pc' = IF n = 0 THEN "create" ELSE "cleanup"
                    /\ UNCHANGED <<results, idx>>
               ELSE /\ Fail(RequestErrorMsg(res))
                    /\ UNCHANGED <<keys, all_keys>>
    /\ UNCHANGED <<listed, origin, prog, nextId, store, config, response, exit_code, emitted, runs,
                   current_secrets, old_access_key, token_a, previous_active_key,
                   new_access_id, token_b, pre>>

\* 4. POST /access_keys
Create ==
    /\ prog = "rotate2"
    /\ pc = "create"
    /\ nextId \in KeyIds
    /\ \E res \in Outcomes :
        /\ calls' = Append(calls, Call("create", IF res = "ok" THEN nextId ELSE NoKey, res))
        /\ IF res = "ok"
           THEN /\ keys' = [keys EXCEPT ![nextId] = "ACTIVE"]
                /\ nextId' = nextId + 1
                /\ new_access_id' = nextId
                /\ pc' = "verify"
                /\ UNCHANGED <<results, idx>>
           ELSE /\ Fail(RequestErrorMsg(res))
                /\ UNCHANGED <<keys, nextId, new_access_id>>
    /\ UNCHANGED <<listed, origin, prog, store, config, response, exit_code, emitted, runs,
                   current_secrets, old_access_key, token_a, all_keys,
                   previous_active_key, token_b, pre>>

\* a slip that creates another key when the new one fails to log in
AfterVerifyFailureRetry == "create"

\* where the except branch of step 5 goes on: the rollback delete
AfterVerifyFailure == "rollback"

\* 5. prisma_login with the new key (session B)
Verify ==
    /\ prog = "rotate2"
    /\ pc = "verify"
    /\ \E res \in Outcomes :
        /\ res = "ok" => LoginAccepts(new_access_id, SecretOf(new_access_id))
        /\ calls' = Append(calls, Call("login", new_access_id, res))
        /\ IF res = "ok"
           THEN /\ token_b' = new_access_id
                /\ pc' = "commit"
           ELSE /\ pc' = AfterVerifyFailure
                /\ UNCHANGED token_b
    /\ UNCHANGED <<listed, origin, prog, keys, nextId, store, config, idx, results, response, exit_code,
                   emitted, runs, current_secrets, old_access_key, token_a, all_keys,
                   previous_active_key, new_access_id, pre>>

\* a slip that deletes the key the run logged in with
RollbackTargetOld == old_access_key

\* the key the except branch of step 5 deletes
RollbackTarget == new_access_id

\* str(e) of what the except branch of step 5 ends with: the delete has no
\* raise_for_status, so only an exception of the delete replaces the RuntimeError
RollbackError(res) == IF res = "exception" THEN ConnectionErrorMsg ELSE RolledBackMsg

\* 5. the except branch: DELETE of the new key with session A, then raise
Rollback ==
    /\ prog = "rotate2"
    /\ pc = "rollback"
    /\ \E res \in Outcomes :
        /\ calls' = Append(calls, Call("delete", RollbackTarget, res))
        /\ keys' = IF res = "ok" THEN [keys EXCEPT ![RollbackTarget] = "NONE"] ELSE keys
        /\ Fail(RollbackError(res))
    /\ UNCHANGED <<listed, origin, prog, nextId, store, config, response, exit_code, emitted, runs,
                   current_secrets, old_access_key, token_a, all_keys,
                   previous_active_key, new_access_id, token_b, pre>>

\* a slip that builds the mapping anew from the two fields
NewVaultDataFresh(secrets, id, secret) ==
    [access_key_id |-> id, secret_key |-> secret, other |-> ""]

\* new_vault_data: a copy of current_secrets with the two fields replaced
NewVaultData(secrets, id, secret) ==
    [secrets EXCEPT !.access_key_id = id, !.secret_key = secret]

\* a slip that logs the failure of the write and does not raise it again
CommitRaisesNever(res) == FALSE

\* update_vault_secret raises again whatever requests raised
CommitRaises(res) == res # "ok"

\* 6. update_vault_secret
Commit ==
    /\ prog = "rotate2"
    /\ pc = "commit"
    /\ \E res \in Outcomes :
        /\ calls' = Append(calls, Call("store_write", new_access_id, res))
        /\ store' = IF res = "ok"
                     THEN NewVaultData(current_secrets, new_access_id, SecretOf(new_access_id))
                     ELSE store
        /\ IF CommitRaises(res)
           THEN Fail(RequestErrorMsg(res))
           ELSE /\ pc' = "deactivate"
                /\ UNCHANGED <<results, idx>>
    /\ UNCHANGED <<listed, origin, prog, keys, nextId, config, response, exit_code, emitted, runs,
                   current_secrets, old_access_key, token_a, all_keys,
                   previous_active_key, new_access_id, token_b, pre>>

\* a slip that patches the key just created
DeactivateNewKey == new_access_id

\* the key step 7 patches
DeactivateTarget == old_access_key

\* 7. PATCH /access_keys/{old_access_key} {"status": False} with session B
Deactivate ==
    /\ prog = "rotate2"
    /\ pc = "deactivate"
    /\ \E res \in Outcomes :
        /\ calls' = Append(calls, Call("patch", DeactivateTarget, res))
        /\ IF res = "ok"
           THEN /\ keys' = [keys EXCEPT ![DeactivateTarget] = "INACTIVE"]
                /\ Succeed
           ELSE /\ Fail(RequestErrorMsg(res))
                /\ UNCHANGED keys
    /\ UNCHANGED <<listed, origin, prog, nextId, store, config, response, exit_code, emitted, runs,
                   current_secrets, old_access_key, token_a, all_keys,
                   previous_active_key, new_access_id, token_b, pre>>

NextRotate2 ==
    \/ LoadConfig
    \/ ProcessStart
    \/ Fetch
    \/ AuthOld
    \/ ListKeys
    \/ Cleanup
    \/ Create
    \/ Verify
    \/ Rollback
    \/ Commit
    \/ Deactivate
    \/ Return

\* =========================================================== keys/rotation.py
\* a slip that ends every run with status 0
ExitAlwaysZero(code) ==
    /\ exit_code' = 0
    /\ pc' = "idle"

\* sys.exit(code), and the end of main
Exit(code) ==
    /\ exit_code' = code
    /\ pc' = "idle"

\* main's check of the environment; ACCESS_KEY_ID and SECRET_KEY are the
\* credential the secret store holds
MainStart ==
    /\ prog = "rotation"
    /\ pc = "idle"
    /\ runs < MaxRuns
    /\ runs' = runs + 1
    /\ pre' = [keys |-> keys, store |-> store]
    /\ calls' = <<>>
    /\ current_secrets' = store
    /\ old_access_key' = store.access_key_id
    /\ token_a' = NoKey
    /\ all_keys' = <<>>
    /\ listed' = {}
    /\ previous_active_key' = NoKey
    /\ new_access_id' = NoKey
    /\ IF store.access_key_id = NoKey \/ store.secret_key = NoKey
       THEN Exit(1)
       ELSE /\ pc' = "m_auth"
            /\ exit_code' = -1
    /\ UNCHANGED <<origin, prog, keys, nextId, store, config, idx, results, response, emitted,
                   token_b>>

\* 1. get_auth_token
GetAuthToken ==
    /\ prog = "rotation"
    /\ pc = "m_auth"
    /\ \E res \in Outcomes :
        /\ res = "ok" => LoginAccepts(old_access_key, current_secrets.secret_key)
        /\ calls' = Append(calls, Call("login", old_access_key, res))
        /\ IF res = "ok"
           THEN /\ token_a' = old_access_key
                /\ pc' = "m_list"
                /\ UNCHANGED exit_code
           ELSE /\ Exit(1)
                /\ UNCHANGED token_a
    /\ UNCHANGED <<listed, origin, prog, keys, nextId, store, config, idx, results, response, emitted,
                   runs, current_secrets, old_access_key, all_keys, previous_active_key,
                   new_access_id, token_b, pre>>

\* a slip in the spelling of the status compared with, which no key matches
IsInactiveKeyNever(key) == key.status = "inactive"

\* key.get("status") == "INACTIVE"
IsInactiveKey(key) == key.status = "INACTIVE"

\* inactive_keys of delete_inactive_keys, in listing order
RECURSIVE InactiveKeys(_)
InactiveKeys(ks) ==
    IF ks = <<>> THEN <<>>
    ELSE (IF IsInactiveKey(Head(ks)) THEN <<Head(ks)>> ELSE <<>>) \o InactiveKeys(Tail(ks))

\* a slip that falls back on the key the script logged in with
FirstActiveOrLogin(ks) ==
    IF \E i \in 1..Len(ks) : ks[i].status = "ACTIVE"
    THEN ks[CHOOSE i \in 1..Len(ks) :
                /\ ks[i].status = "ACTIVE"
                /\ \A j \in 1..(i - 1) : ks[j].status # "ACTIVE"].id
    ELSE old_access_key

\* next((key for key in all_keys if key.get("status") == "ACTIVE"), None)
FirstActive(ks) ==
    IF \E i \in 1..Len(ks) : ks[i].status = "ACTIVE"
    THEN ks[CHOOSE i \in 1..Len(ks) :
                /\ ks[i].status = "ACTIVE"
                /\ \A j \in 1..(i - 1) : ks[j].status # "ACTIVE"].id
    ELSE NoKey

\* a slip that hands on a listing whether or not the call succeeded
KeysReturnedAlways(res) == Listings

\* what get_all_keys returns: response.json() of the listing call, and []
\* from its except branch when the call fails
KeysReturned(res) == IF res = "ok" THEN Listings ELSE {<<>>}

\* 2. get_all_keys (an empty list when the call fails), 3. previous_active_key
GetAllKeys ==
    /\ prog = "rotation"
    /\ pc = "m_list"
    /\ \E res \in Outcomes :
        /\ calls' = Append(calls, Call("list", NoKey, res))
        /\ \E l \in KeysReturned(res) :
            /\ previous_active_key' = FirstActive(l)
            /\ all_keys' = InactiveKeys(l)
            /\ listed' = Range(l)
            /\ pc' = IF InactiveKeys(l) = <<>> THEN "m_create" ELSE "m_delete"
    /\ UNCHANGED <<origin, prog, keys, nextId, store, config, idx, results, response, exit_code,
                   emitted, runs, current_secrets, old_access_key, token_a,
                   new_access_id, token_b, pre>>

\* 4. delete_inactive_keys: one DELETE /access-keys with the ids of the
\* inactive keys; a failure is printed and the run goes on
DeleteInactiveKeys ==
    /\ prog = "rotation"
    /\ pc = "m_delete"
    /\ \E res \in Outcomes :
        /\ calls' = calls \o [i \in 1..Len(all_keys) |-> Call("delete", all_keys[i].id, res)]
        /\ keys' = IF res = "ok"
                   THEN [k \in KeyIds |->
                            IF \E i \in 1..Len(all_keys) : all_keys[i].id = k
                            THEN "NONE" ELSE keys[k]]
                   ELSE keys
    /\ all_keys' = <<>>
    /\ pc' = "m_create"
    /\ UNCHANGED <<listed, origin, prog, nextId, store, config, idx, results, response, exit_code,
                   emitted, runs, current_secrets, old_access_key, token_a,
                   previous_active_key, new_access_id, token_b, pre>>

\* 5. create_new_key
CreateNewKey ==
    /\ prog = "rotation"
    /\ pc = "m_create"
    /\ nextId \in KeyIds
    /\ \E res \in Outcomes :
        /\ calls' = Append(calls, Call("create", IF res = "ok" THEN nextId ELSE NoKey, res))
        /\ IF res = "ok"
           THEN /\ keys' = [keys EXCEPT ![nextId] = "ACTIVE"]
                /\ nextId' = nextId + 1
                /\ new_access_id' = nextId
                /\ pc' = IF previous_active_key # NoKey THEN "m_deactivate" ELSE "m_emit"
                /\ UNCHANGED exit_code
           ELSE /\ Exit(1)
                /\ UNCHANGED <<keys, nextId, new_access_id>>
    /\ UNCHANGED <<listed, origin, prog, store, config, idx, results, response, emitted, runs,
                   current_secrets, old_access_key, token_a, all_keys,
                   previous_active_key, token_b, pre>>

\* the key main hands to deactivate_key
PreviousKey == previous_active_key

\* 6. deactivate_key: a failure is a warning and the run goes on
DeactivateKey ==
    /\ prog = "rotation"
    /\ pc = "m_deactivate"
    /\ \E res \in Outcomes :
        /\ calls' = Append(calls, Call("patch", PreviousKey, res))
        /\ keys' = IF res = "ok" THEN [keys EXCEPT ![PreviousKey] = "INACTIVE"] ELSE keys
    /\ pc' = "m_emit"
    /\ UNCHANGED <<listed, origin, prog, nextId, store, config, idx, results, response, exit_code,
                   emitted, runs, current_secrets, old_access_key, token_a, all_keys,
                   previous_active_key, new_access_id, token_b, pre>>

\* 7. print(json.dumps(output)): Vault reads the new credential from stdout
\* and makes it the content of its secret store
Emit ==
    /\ prog = "rotation"
    /\ pc = "m_emit"
    /\ calls' = Append(calls, Call("emit", new_access_id, "ok"))
    /\ emitted' = new_access_id
    /\ store' = [store EXCEPT !.access_key_id = new_access_id,
                              !.secret_key = SecretOf(new_access_id)]
    /\ Exit(0)
    /\ UNCHANGED <<listed, origin, prog, keys, nextId, config, idx, results, response, runs,
                   current_secrets, old_access_key, token_a, all_keys,
                   previous_active_key, new_access_id, token_b, pre>>

NextRotation ==
    \/ MainStart
    \/ GetAuthToken
    \/ GetAllKeys
    \/ DeleteInactiveKeys
    \/ CreateNewKey
    \/ DeactivateKey
    \/ Emit

Next == NextRotate2 \/ NextRotation

Spec == Init /\ [][Next]_vars

\* ------------------------------------------------- calls that never answer
\* the timeout, in seconds, the script gives its requests calls (0: none):
\* rotation.py passes timeout=10 to every call, rotate2.py passes none
Timeout(p) == IF p = "rotation" THEN 10 ELSE 0

\* the positions at which the script is about to make a network call
CallPositions ==
    {"fetch", "auth_old", "list", "cleanup", "create", "verify", "rollback", "commit",
     "deactivate", "m_auth", "m_list", "m_delete", "m_create", "m_deactivate"}

\* The remote side never answers the call.  With a timeout requests raises
\* Timeout, a RequestException: the outcome "exception" of the call's own
\* action.  Without one the call, and the run, wait for ever.
NoAnswer ==
    /\ pc \in CallPositions
    /\ Timeout(prog) = 0
    /\ pc' = "blocked"
    /\ UNCHANGED <<listed, origin, prog, keys, nextId, store, config, idx, results,
                   response, exit_code, emitted, runs, current_secrets, old_access_key,
                   token_a, all_keys, previous_active_key, new_access_id, token_b,
                   calls, pre>>

NextLive == Next \/ NoAnswer

\* the script is not suspended: it takes its next step whenever it has one
SpecLive == Init /\ [][NextLive]_vars /\ WF_vars(NextLive)


\* ================================================================= claims
\* a run has been started and has ended
RunEnded == runs > 0 /\ pc \in {"loop", "returned", "idle"}

LastResult == results[Len(results)]

RunSucceeded == IF prog = "rotate2" THEN LastResult.status = "Success" ELSE exit_code = 0

RunFailed == IF prog = "rotate2" THEN LastResult.status = "Failed" ELSE exit_code = 1

CallIdx == 1..Len(calls)

FailedCalls == {i \in CallIdx : calls[i].res # "ok"}

\* the login with the key this run created failed
VerifyFailed ==
    /\ new_access_id # NoKey
    /\ \E i \in CallIdx :
        calls[i].op = "login" /\ calls[i].key = new_access_id /\ calls[i].res # "ok"

\* the store write of this run failed
CommitFailed == \E i \in CallIdx : calls[i].op = "store_write" /\ calls[i].res # "ok"

\* C1: an account that had an ACTIVE key when the run started has one in
\* every state of the run, whatever calls fail.
C1_NeverZeroActive ==
    (runs > 0 /\ ActiveCount(pre.keys) >= 1) => ActiveCount(keys) >= 1

\* C1 witness: a run that started with one ACTIVE key has created a key and
\* set the old one INACTIVE.
C1_Witness ==
    /\ ActiveCount(pre.keys) = 1
    /\ \E i \in CallIdx : calls[i].op = "patch" /\ calls[i].res = "ok"
    /\ \E i \in CallIdx : calls[i].op = "create" /\ calls[i].res = "ok"
    /\ ActiveCount(keys) = 1

\* C2: the new credential is handed to the secret store (store write in
\* rotate2.py, the JSON printed in rotation.py) only after a login with that
\* key succeeded in the same run.
C2_HandoffAfterVerify ==
    \A i \in CallIdx :
        calls[i].op \in {"store_write", "emit"} =>
            \E j \in 1..(i - 1) :
                calls[j].op = "login" /\ calls[j].key = calls[i].key /\ calls[j].res = "ok"

\* the stored credential is the only ACTIVE key
SoleActiveIsStored(ks, st) ==
    /\ ActiveKeys(ks) = {st.access_key_id}
    /\ st.secret_key = SecretOf(st.access_key_id)

\* C3: starting from an account whose only ACTIVE key is the stored
\* credential, at every instant of any sequence of runs either exactly one
\* key is ACTIVE and it is the stored credential, or exactly two keys are
\* ACTIVE, or no run has begun.
C3_CentralInvariant ==
    SoleActiveIsStored(origin.keys, origin.store) =>
        \/ runs = 0
        \/ SoleActiveIsStored(keys, store)
        \/ ActiveCount(keys) = 2

\* C4: when a task ends with Success exactly one key is ACTIVE and it is
\* the credential the store holds, for every initial key set.
C4_DoneOneActive ==
    (prog = "rotate2" /\ RunEnded /\ RunSucceeded) => SoleActiveIsStored(keys, store)

\* the failure detail says the new key was rolled back
ReportsRolledBack(err) == err = RolledBackMsg

\* C5: after a failed VERIFY the task is Failed, the original key is ACTIVE
\* and stored, and the new key is gone or the failure detail does not report
\* it as rolled back.
C5_VerifyFailurePost ==
    (prog = "rotate2" /\ RunEnded /\ VerifyFailed) =>
        /\ RunFailed
        /\ keys[old_access_key] = "ACTIVE"
        /\ store = pre.store
        /\ store.access_key_id = old_access_key
        /\ \/ keys[new_access_id] = "NONE"
           \/ ~ReportsRolledBack(LastResult.error)

\* C6: after a failed COMMIT the task is Failed, no delete and no status
\* change was issued for the old or the new key, both are ACTIVE, and the
\* store content is what it was before the run, the old credential.
C6_CommitFailurePost ==
    (prog = "rotate2" /\ RunEnded /\ CommitFailed) =>
        /\ RunFailed
        /\ \A i \in CallIdx :
            calls[i].op \in {"delete", "patch"} =>
                calls[i].key \notin {old_access_key, new_access_id}
        /\ keys[old_access_key] = "ACTIVE"
        /\ keys[new_access_id] = "ACTIVE"
        /\ store = pre.store
        /\ store.access_key_id = old_access_key

\* C6 witness: a run ended after its store write failed, the login with the
\* new key having succeeded.
C6_Witness ==
    /\ prog = "rotate2"
    /\ RunEnded
    /\ CommitFailed
    /\ token_b = new_access_id
    /\ new_access_id # NoKey

\* the status change of the old key failed after the store write succeeded
DeactivateFailed ==
    /\ \E i \in CallIdx : calls[i].op = "patch" /\ calls[i].res # "ok"
    /\ prog = "rotate2" =>
        \E i \in CallIdx : calls[i].op = "store_write" /\ calls[i].res = "ok"

\* C7: a run whose DEACTIVATE call failed still ends in Success.
C7_DeactivateFailureIsDone ==
    (RunEnded /\ DeactivateFailed) => RunSucceeded

\* the calls of CLEANUP: the listing and the deletes before the create
IsCleanupCall(i) ==
    /\ calls[i].op \in {"list", "delete"}
    /\ \A j \in 1..i : calls[j].op # "create"

\* C8: a run in which only CLEANUP calls failed does not end Failed.
C8_CleanupFailureNotFatal ==
    (RunEnded /\ FailedCalls # {} /\ \A i \in FailedCalls : IsCleanupCall(i))
        => RunSucceeded

\* lambda_handler has returned from its loop
Returned == prog = "rotate2" /\ pc = "returned" /\ response.statusCode # 500

\* lambda_handler has left its loop: it returned the results, or an
\* exception left it
HandlerLeft == Returned \/ (prog = "rotate2" /\ pc = "raised")

\* C9: whatever the task list holds and whatever tasks fail, when the batch
\* has left its loop every task was run and has one result, in the order of
\* the task list, and the batch returned these results.
C9_OneResultPerTask ==
    HandlerLeft =>
        /\ runs = Len(config)
        /\ Len(results) = Len(config)
        /\ \A i \in 1..Len(config) : results[i].path = config[i].vault_secret_path
        /\ Returned
        /\ response.body = results

\* the results of a batch over the same tasks in which every task succeeded
AllSuccess == [i \in 1..Len(config) |-> SuccessResult(config[i])]

\* C10: the status returned for a batch with a Failed task differs from the
\* status returned for a batch in which every task succeeded.
C10_StatusReflectsFailure ==
    (Returned /\ \E i \in 1..Len(response.body) : response.body[i].status = "Failed")
        => response.statusCode # ReturnStatus(AllSuccess)


\* the task record the run that just ended was started for
EndedItem == config[Len(results)]

\* no call of the run failed and, in rotate2.py, its task record is complete
NoStepFailed ==
    /\ FailedCalls = {}
    /\ prog = "rotate2" =>
        /\ EndedItem.vault_secret_path # None
        /\ EndedItem.prisma_api_url # None

\* rotate2.py: every run before the current one ended in Success
EarlierSucceeded == \A i \in 1..(runs - 1) : results[i].status = "Success"

\* C11: from an account whose only ACTIVE key is the stored credential, two
\* runs of process_rotation in succession in which no step fails both
\* succeed (the service accepts the login with what the first run stored),
\* and after the second exactly one key is ACTIVE, it is neither the
\* original key nor the first run's new key, and the store holds it.
C11_TwiceInSuccession ==
    (prog = "rotate2" /\ SoleActiveIsStored(origin.keys, origin.store)
        /\ runs \in {1, 2} /\ EarlierSucceeded) =>
        /\ pc = "auth_old" => LoginAccepts(old_access_key, current_secrets.secret_key)
        /\ (RunEnded /\ NoStepFailed) => RunSucceeded
        /\ (RunEnded /\ RunSucceeded /\ runs = 2) =>
            /\ ActiveKeys(keys) = {new_access_id}
            /\ SoleActiveIsStored(keys, store)
            /\ new_access_id # origin.store.access_key_id
            /\ new_access_id # pre.store.access_key_id
            /\ pre.store.access_key_id # origin.store.access_key_id

\* C11 witness: the second of two runs in succession ended in Success, as
\* the first did.
C11_Witness ==
    /\ prog = "rotate2"
    /\ SoleActiveIsStored(origin.keys, origin.store)
    /\ runs = 2
    /\ RunEnded
    /\ NoStepFailed
    /\ Len(results) = 2
    /\ results[1].status = "Success"
    /\ results[2].status = "Success"

\* the ids of the delete calls of the run
DeletedIds == {calls[i].key : i \in {j \in CallIdx : calls[j].op = "delete"}}

\* the ids of the create calls of the run
CreateCalls == {i \in CallIdx : calls[i].op = "create"}

\* C12: a run in which no step fails, started with one ACTIVE key K1 that
\* is the stored credential and any INACTIVE keys, deletes exactly the
\* INACTIVE keys, creates one key K2, and ends with the key set
\* {K1: INACTIVE, K2: ACTIVE} and the store holding K2.
C12_CleanRun ==
    (SoleActiveIsStored(pre.keys, pre.store) /\ RunEnded /\ NoStepFailed) =>
        /\ RunSucceeded
        /\ DeletedIds = {k \in KeyIds : pre.keys[k] = "INACTIVE"}
        /\ Cardinality(CreateCalls) = 1
        /\ new_access_id \in KeyIds
        /\ pre.keys[new_access_id] = "NONE"
        /\ keys = [k \in KeyIds |->
                    IF k = pre.store.access_key_id THEN "INACTIVE"
                    ELSE IF k = new_access_id THEN "ACTIVE"
                    ELSE "NONE"]
        /\ store.access_key_id = new_access_id
        /\ store.secret_key = SecretOf(new_access_id)

\* C12 witness: such a run ended, the account having held an INACTIVE key
\* beside K1.
C12_Witness ==
    /\ SoleActiveIsStored(pre.keys, pre.store)
    /\ RunEnded
    /\ NoStepFailed
    /\ \E k \in KeyIds : pre.keys[k] = "INACTIVE"


\* the script holds a key listing: keys_resp.json() in rotate2.py, what
\* get_all_keys returned in rotation.py (an empty list when the call failed)
ListingObtained ==
    \E i \in CallIdx :
        calls[i].op = "list" /\ (calls[i].res = "ok" \/ prog = "rotation")

\* C13: when the listing holds no key, no delete is issued, the call after
\* the listing is the create, no status change is issued, and a run whose
\* create succeeded ends without error.
C13_NothingToRetire ==
    (ListingObtained /\ listed = {}) =>
        /\ \A i \in CallIdx : calls[i].op \notin {"delete", "patch"}
        /\ pc \notin {"cleanup", "m_delete", "deactivate", "m_deactivate"}
        /\ \A i \in CallIdx :
            (calls[i].op = "list" /\ i < Len(calls)) => calls[i + 1].op = "create"
        /\ (RunEnded /\ new_access_id # NoKey) => RunSucceeded

\* C13 witness: a run that obtained an empty listing created a key and ended.
C13_Witness ==
    /\ ListingObtained
    /\ listed = {}
    /\ RunEnded
    /\ new_access_id # NoKey
    /\ \E i \in CallIdx : calls[i].op = "create" /\ calls[i].res = "ok"

\* the new credential was handed over: written to the store (rotate2.py) or
\* printed for Vault (rotation.py)
IsHandoff(i) ==
    /\ calls[i].op \in {"store_write", "emit"}
    /\ calls[i].key = new_access_id
    /\ calls[i].res = "ok"

\* C14: in a run the calls come in the order create, login with the new key,
\* hand-off of the new credential, status change of the old key: the
\* hand-off follows a successful login with the new key, the status change
\* follows the hand-off, and a successful run has made all four.
C14_StrictOrder ==
    /\ \A i \in CallIdx :
        calls[i].op \in {"store_write", "emit"} =>
            \E j \in 1..(i - 1) :
                calls[j].op = "login" /\ calls[j].key = new_access_id /\ calls[j].res = "ok"
    /\ \A i \in CallIdx :
        calls[i].op = "patch" => \E j \in 1..(i - 1) : IsHandoff(j)
    /\ (RunEnded /\ RunSucceeded) =>
        \E c \in CallIdx :
            /\ c + 3 = Len(calls)
            /\ calls[c].op = "create"
            /\ calls[c + 1].op = "login"
            /\ IsHandoff(c + 2)
            /\ calls[c + 3].op = "patch"


\* a run has been started and has not ended
InRun == runs > 0 /\ ~RunEnded /\ pc # "raised"

\* C15: every run reaches a terminal state even when a remote call never
\* answers: a run that has not ended always has a next step (each call is
\* bounded by a timeout, handled as a failure of the step).
C15_RunReachesTerminal == InRun => ENABLED NextLive


\* the keys that exist now and did not when the run started
AddedKeys == {k \in KeyIds : pre.keys[k] = "NONE" /\ keys[k] # "NONE"}

\* the login with the key this run created failed at call i
IsFailedVerify(i) ==
    /\ new_access_id # NoKey
    /\ calls[i].op = "login"
    /\ calls[i].key = new_access_id
    /\ calls[i].res # "ok"

\* C16: a run issues the create call at most once and adds at most one key;
\* a failed VERIFY is followed by the rollback delete of the new key and the
\* run ends Failed, with no further call.
C16_CreateAtMostOnce ==
    /\ Cardinality(CreateCalls) <= 1
    /\ Cardinality(AddedKeys) <= 1
    /\ \A i \in CallIdx :
        IsFailedVerify(i) =>
            \/ i = Len(calls) /\ pc = "rollback"
            \/ /\ i + 1 = Len(calls)
               /\ calls[i + 1].op = "delete"
               /\ calls[i + 1].key = new_access_id
               /\ RunEnded
               /\ RunFailed

\* C16 witness: a run ended after the login with its new key failed.
C16_Witness ==
    /\ RunEnded
    /\ VerifyFailed
    /\ Cardinality(CreateCalls) = 1

\* C17: a delete is issued only for a key that was INACTIVE when the run
\* started (CLEANUP) or for the key this run created, after its VERIFY login
\* failed (ROLLBACK); no key that was ACTIVE before the run is deleted.
C17_DeleteOnlyInactiveOrRollback ==
    /\ \A i \in CallIdx :
        calls[i].op = "delete" =>
            \/ calls[i].key \in KeyIds /\ pre.keys[calls[i].key] = "INACTIVE"
            \/ /\ calls[i].key = new_access_id
               /\ \E j \in 1..(i - 1) : IsFailedVerify(j)
    /\ runs > 0 => \A k \in KeyIds : pre.keys[k] = "ACTIVE" => keys[k] # "NONE"

\* C17 witness: a run deleted an INACTIVE key in CLEANUP and later its own
\* new key in ROLLBACK.
C17_Witness ==
    /\ \E i \in CallIdx :
        calls[i].op = "delete" /\ calls[i].res = "ok" /\ calls[i].key # new_access_id
    /\ \E i \in CallIdx :
        calls[i].op = "delete" /\ calls[i].res = "ok" /\ calls[i].key = new_access_id
    /\ new_access_id # NoKey


\* C18: the key a run sets INACTIVE does not depend on the order in which
\* the service lists the keys: from one account state every listing order
\* makes rotation.py's main pick the same previous_active_key.
C18_DeterministicChoice ==
    (prog = "rotation" /\ pc = "m_list") =>
        \A l1, l2 \in Listings : FirstActive(l1) = FirstActive(l2)

LastCall == calls[Len(calls)]

\* the run ended at FETCH: at most the store read was made
EndedAtFetch ==
    /\ RunEnded
    /\ calls = <<>> \/ (Len(calls) = 1 /\ calls[1].op = "store_read")

\* the run ended at AUTH_OLD: the login with the stored credential failed
EndedAtAuthOld ==
    /\ RunEnded
    /\ calls # <<>>
    /\ LastCall.op = "login"
    /\ LastCall.key = old_access_key
    /\ LastCall.res # "ok"

\* the run ended at CREATE: the create call failed
EndedAtCreate ==
    /\ RunEnded
    /\ calls # <<>>
    /\ LastCall.op = "create"
    /\ LastCall.res # "ok"

\* C19: a run that fails at FETCH, AUTH_OLD or CREATE ends Failed with the
\* store content and the set of ACTIVE keys as before the run and no new
\* key; failing at FETCH or AUTH_OLD it issued no list, delete, create or
\* patch call.
C19_EarlyFailureFrame ==
    /\ (EndedAtFetch \/ EndedAtAuthOld \/ EndedAtCreate) =>
        /\ RunFailed
        /\ store = pre.store
        /\ ActiveKeys(keys) = ActiveKeys(pre.keys)
        /\ AddedKeys = {}
        /\ new_access_id = NoKey
    /\ (EndedAtFetch \/ EndedAtAuthOld) =>
        /\ keys = pre.keys
        /\ \A i \in CallIdx : calls[i].op \notin {"list", "delete", "create", "patch"}

\* C19 witness: a run ended on a failed create after CLEANUP had deleted a key.
C19_Witness ==
    /\ EndedAtCreate
    /\ \E i \in CallIdx : calls[i].op = "delete" /\ calls[i].res = "ok"

\* the store write of this run succeeded
Committed == \E i \in CallIdx : calls[i].op = "store_write" /\ calls[i].res = "ok"

\* C20: the COMMIT write of process_rotation replaces access_key_id and
\* secret_key and keeps every other field of the mapping read at FETCH,
\* which itself stays as it was read.
C20_CommitFrame ==
    (prog = "rotate2" /\ Committed) =>
        /\ store.other = pre.store.other
        /\ store.access_key_id = new_access_id
        /\ store.secret_key = SecretOf(new_access_id)
        /\ current_secrets = pre.store
        /\ current_secrets.access_key_id = old_access_key

\* C20 witness: the store write succeeded and the stored mapping differs
\* from the one read.
C20_Witness ==
    /\ prog = "rotate2"
    /\ Committed
    /\ store # pre.store
    /\ pre.store.other # ""

\* the listing call of this run failed
ListingFailed == \E i \in CallIdx : calls[i].op = "list" /\ calls[i].res # "ok"

\* the create call of this run succeeded
Created == \E i \in CallIdx : calls[i].op = "create" /\ calls[i].res = "ok"

\* C21: in rotation.py a run whose listing call failed issues no delete and
\* no status change and goes on to the create; no key changes but the one it
\* creates, and once the create succeeded the run prints the new key as the
\* new credential and ends with exit status 0, the key it logged in with and
\* the new key both ACTIVE.
C21_ListingFailure ==
    (prog = "rotation" /\ ListingFailed) =>
        /\ \A i \in CallIdx : calls[i].op \notin {"delete", "patch"}
        /\ pc \notin {"m_delete", "m_deactivate"}
        /\ previous_active_key = NoKey
        /\ \A i \in CallIdx :
            (calls[i].op = "list" /\ i < Len(calls)) => calls[i + 1].op = "create"
        /\ \A k \in KeyIds : k # new_access_id => keys[k] = pre.keys[k]
        /\ (RunEnded /\ Created) =>
            /\ exit_code = 0
            /\ calls[Len(calls)] = Call("emit", new_access_id, "ok")
            /\ emitted = new_access_id
            /\ store.access_key_id = new_access_id
            /\ pre.keys[old_access_key] = "ACTIVE"
            /\ keys[old_access_key] = "ACTIVE"
            /\ keys[new_access_id] = "ACTIVE"
            /\ new_access_id # old_access_key
            /\ ActiveKeys(keys) = ActiveKeys(pre.keys) \cup {new_access_id}

\* C21 witness: a rotation.py run whose listing failed ended with exit status
\* 0 and two ACTIVE keys, an INACTIVE key of the account still being there.
C21_Witness ==
    /\ prog = "rotation"
    /\ ListingFailed
    /\ RunEnded
    /\ Created
    /\ exit_code = 0
    /\ ActiveCount(keys) = 2
    /\ \E k \in KeyIds : pre.keys[k] = "INACTIVE" /\ keys[k] = "INACTIVE"

====
